---- MODULE Spec2Model ----
(***************************************************************************)
(* Model of obsidian-semantic-search: the debounced link-suggestion        *)
(* pipeline (src/src/ui/linkSuggest.ts), the query modal                    *)
(* (src/src/ui/queryModal.ts) and candidate resolution                      *)
(* (src/src/ui/suggestion.ts).                                              *)
(*                                                                         *)
(* Text is a sequence of one-character strings; a JavaScript string index  *)
(* i is position i + 1 of the sequence.                                    *)
(***************************************************************************)
EXTENDS Integers, Sequences, FiniteSets, TLC

\* ------------------------------------------------------------------ bounds

\* Longest document text drawn for the resolution specification.
MaxLen == 5
\* Number of trigger events (keystrokes) of one pipeline run.
MaxTriggers == 3
\* Number of Submit clicks of one query-modal run.
MaxClicks == 2

\* ------------------------------------------------------------------ text

NL == "\n"

Min(a, b) == IF a < b THEN a ELSE b

\* The characters documents are drawn from.
Alphabet == {"#", "a", NL}

RECURSIVE TextsOfLen(_)
TextsOfLen(n) ==
  IF n = 0 THEN {<<>>}
  ELSE {Append(t, c) : t \in TextsOfLen(n - 1), c \in Alphabet}

Texts == UNION {TextsOfLen(n) : n \in 0..MaxLen}

\* The scenario document "A\n## Intro\ntext\n## Setup\nmore".
ScenarioDoc ==
  <<"A", NL, "#", "#", " ", "I", "n", "t", "r", "o", NL, "t", "e", "x", "t", NL,
    "#", "#", " ", "S", "e", "t", "u", "p", NL, "m", "o", "r", "e">>

ScenarioHeader == <<"S", "e", "t", "u", "p">>

\* String.prototype.split("\n"): the pieces between newlines, "" included.
RECURSIVE SplitNL(_, _)
SplitNL(t, cur) ==
  IF t = <<>> THEN <<cur>>
  ELSE IF Head(t) = NL THEN <<cur>> \o SplitNL(Tail(t), <<>>)
  ELSE SplitNL(Tail(t), Append(cur, Head(t)))

\* The boundary patterns: "." (the default), "^#{1,6}" (every heading),
\* "^## " (the H2 preset), and the pattern of a Suggestion built without one
\* (new RegExp(undefined) is /(?:)/, which matches every line).
PatDot == [kind |-> "dot", str |-> <<>>]
PatHeading == [kind |-> "prefix", str |-> <<"#">>]
PatH2 == [kind |-> "prefix", str |-> <<"#", "#", " ">>]
PatUndefined == [kind |-> "all", str |-> <<>>]

Patterns == {PatDot, PatHeading, PatH2, PatUndefined}

\* A string that is no regular expression, such as "(": new RegExp throws.
PatInvalid == [kind |-> "invalid", str |-> <<"(">>]

\* line.match(section_delimeter_regex) is truthy.
LineMatches(line, pat) ==
  CASE pat.kind = "dot" -> Len(line) > 0
    [] pat.kind = "prefix" ->
         /\ Len(line) >= Len(pat.str)
         /\ SubSeq(line, 1, Len(pat.str)) = pat.str
    [] OTHER -> TRUE

\* ------------------------------------------------------------------ splitter

\* An iteration that advances the cursor over the newline as well.
SplitStepCountsNewline(st, line, pat) ==
  IF LineMatches(line, pat) /\ st.cur_idx # 0
  THEN [sections |-> Append(st.sections,
                            [text |-> st.cur_section,
                             start |-> st.cur_idx - Len(st.cur_section),
                             end |-> st.cur_idx]),
        cur_section |-> line,
        cur_idx |-> st.cur_idx + Len(line) + 1]
  ELSE [sections |-> st.sections,
        cur_section |-> st.cur_section \o line,
        cur_idx |-> st.cur_idx + Len(line) + 1]

\* An iteration whose pushed section ends after the line that closes it.
SplitStepEndAfterLine(st, line, pat) ==
  IF LineMatches(line, pat) /\ st.cur_idx # 0
  THEN [sections |-> Append(st.sections,
                            [text |-> st.cur_section,
                             start |-> st.cur_idx - Len(st.cur_section),
                             end |-> st.cur_idx + Len(line)]),
        cur_section |-> line,
        cur_idx |-> st.cur_idx + Len(line)]
  ELSE [sections |-> st.sections,
        cur_section |-> st.cur_section \o line,
        cur_idx |-> st.cur_idx + Len(line)]

\* One iteration of the loop over the lines.
SplitStep(st, line, pat) ==
  IF LineMatches(line, pat) /\ st.cur_idx # 0
  THEN [sections |-> Append(st.sections,
                            [text |-> st.cur_section,
                             start |-> st.cur_idx - Len(st.cur_section),
                             end |-> st.cur_idx]),
        cur_section |-> line,
        cur_idx |-> st.cur_idx + Len(line)]
  ELSE [sections |-> st.sections,
        cur_section |-> st.cur_section \o line,
        cur_idx |-> st.cur_idx + Len(line)]

RECURSIVE SplitLoop(_, _, _, _)
SplitLoop(lines, pat, k, st) ==
  IF k > Len(lines) THEN st
  ELSE SplitLoop(lines, pat, k + 1, SplitStep(st, lines[k], pat))

SplitInit == [sections |-> <<>>, cur_section |-> <<>>, cur_idx |-> 0]

\* The sections the Fuse index is built from: what the loop pushed.
SplitSections(contents, pat) ==
  SplitLoop(SplitNL(contents, <<>>), pat, 1, SplitInit).sections

\* ------------------------------------------------------------------ mapper

\* The number of newline characters of t.
RECURSIVE CountNL(_)
CountNL(t) ==
  IF t = <<>> THEN 0
  ELSE (IF Head(t) = NL THEN 1 ELSE 0) + CountNL(Tail(t))

\* content.slice(0, index), index >= 0.
Slice0(content, index) == SubSeq(content, 1, Min(index, Len(content)))

\* substr.indexOf("\n", from): the 0-based index of the first newline at or
\* after from, -1 without one.
IndexOfNL(substr, from) ==
  IF \E k \in from..(Len(substr) - 1) : substr[k + 1] = NL
  THEN CHOOSE k \in from..(Len(substr) - 1) :
         /\ substr[k + 1] = NL
         /\ \A m \in from..(k - 1) : substr[m + 1] # NL
  ELSE -1

\* for (; (r = substr.indexOf("\n", r + 1)) !== -1; l++);
RECURSIVE LocLoop(_, _, _)
LocLoop(substr, l, r) ==
  LET next == IndexOfNL(substr, r + 1)
  IN IF next = -1 THEN l ELSE LocLoop(substr, l + 1, next)

\* A mapper that counts the newlines of the whole content.
getLocFromIndexWholeText(content, index) ==
  [line |-> LocLoop(content, 1, -1), col |-> 0, offset |-> index]

getLocFromIndex(content, index) ==
  [line |-> LocLoop(Slice0(content, index), 1, -1), col |-> 0, offset |-> index]

\* ------------------------------------------------------------------ matcher

\* Fuse compares case-insensitively (isCaseSensitive defaults to false).
Lower(c) ==
  CASE c = "A" -> "a"
    [] c = "I" -> "i"
    [] c = "S" -> "s"
    [] OTHER -> c

LowerText(t) == [i \in 1..Len(t) |-> Lower(t[i])]

IsSubstring(s, h) ==
  \E k \in 1..(Len(h) - Len(s) + 1) : SubSeq(h, k, k + Len(s) - 1) = s

\* options.minMatchCharLength
minMatchCharLength == 2

\* The index ranges <<i, j>> (0-based, inclusive, as Fuse reports them) of the
\* runs of text, at least minMatchCharLength long, that also occur in header.
CommonRuns(text, header) ==
  {r \in (0..(Len(text) - 1)) \X (0..(Len(text) - 1)) :
     /\ r[2] - r[1] + 1 >= minMatchCharLength
     /\ IsSubstring(SubSeq(LowerText(text), r[1] + 1, r[2] + 1), LowerText(header))}

\* The scores Fuse reports for a best match: 0 for a perfect match, 1 for
\* any other.
FuseScores == {0, 1}

\* fuse.search(header)[0]: Fuse is a library, so its ranking is a choice among
\* the sections that share a run of minMatchCharLength characters with the
\* header (Fuse drops a candidate that has no such run); the empty set is an
\* empty result list.
FuseSearch(sections, header) ==
  UNION {{[refIndex |-> k, item |-> sections[k], score |-> sc,
           matches |-> <<[indices |-> <<r>>]>>] :
            sc \in FuseScores, r \in CommonRuns(sections[k].text, header)} :
         k \in 1..Len(sections)}

\* ------------------------------------------------------------------ Suggestion

\* The vault's markdown files, a sequence of [name, contents].
FixedVault ==
  << [name |-> "n1", contents |-> <<"a", NL, "#", "a", NL, "#", "a">>],
     [name |-> "n2", contents |-> <<"#", "a", "a">>] >>

\* new Suggestion(app, wasmSuggestion, sectionDelimeterRegex). An undefined
\* field is the empty sequence, a defined one a one-element sequence; file is
\* the index of the file in the vault, 0 when undefined.
NewSuggestion(cand, regex) ==
  [name |-> cand.name, header |-> cand.header, file |-> 0, pos |-> <<>>,
   match |-> <<>>, sectionDelimeterRegex |-> regex, stage |-> "new"]

\* A find whose test holds for every file: the first file, if there is one.
FindFileAny(files, name) == IF Len(files) > 0 THEN 1 ELSE 0

\* files.find(file => file.name === this.name)
FindFile(files, name) ==
  IF \E i \in 1..Len(files) : files[i].name = name
  THEN CHOOSE i \in 1..Len(files) :
         /\ files[i].name = name
         /\ \A j \in 1..(i - 1) : files[j].name # name
  ELSE 0

addSuggestionFile(files, sug) ==
  [sug EXCEPT !.file = FindFile(files, sug.name), !.stage = "file"]

\* addSuggestionHeading up to its first suspension: with a file it awaits
\* vault.cachedRead, without one it is finished.
HeadingStart(sug) ==
  [sug EXCEPT !.stage = IF sug.file # 0 THEN "reading" ELSE "done"]

\* The loop over bestMatch.matches: indices.concat(match_indices) builds a new
\* array that is dropped, so indices is what it was.
RECURSIVE CollectIndices(_, _, _)
CollectIndices(matches, k, indices) ==
  IF k > Len(matches) THEN indices
  ELSE CollectIndices(matches, k + 1, indices)

\* The index ranges of all the entries of bestMatch.matches, in order.
RECURSIVE AllIndices(_)
AllIndices(matches) ==
  IF matches = <<>> THEN <<>>
  ELSE Head(matches).indices \o AllIndices(Tail(matches))

\* What addSuggestionHeading writes once a best match is found.
ApplyBest(sug, contents, best) ==
  [sug EXCEPT
     \* bestMatch.matches is an array (includeMatches), which is truthy
     !.match = IF best.score # 0
               THEN <<[score |-> best.score,
                       matches |-> CollectIndices(best.matches, 1, <<>>)]>>
               ELSE sug.match,
     !.pos = <<[start |-> getLocFromIndex(contents, best.item.start),
                end |-> getLocFromIndex(contents, best.item.end)]>>,
     !.stage = "done"]

\* An empty result list whose first element is used all the same: the read of
\* result[0].item throws.
NoMatchThrows(sug) == [sug EXCEPT !.stage = "threw"]

\* result.length > 0 is false: nothing is written and the step ends.
NoMatch(sug) == [sug EXCEPT !.stage = "done"]

\* new RegExp(this.sectionDelimeterRegex) throws a SyntaxError: the step ends
\* with its promise rejected and nothing written.
RegexThrows(sug) == [sug EXCEPT !.stage = "threw"]

\* vault.cachedRead rejects: the step ends with its promise rejected and
\* nothing written.
ReadFails(sug) == [sug EXCEPT !.stage = "unread"]

\* The possible outcomes of addSuggestionHeading after cachedRead returned
\* contents: one per answer of Fuse.
HeadingOutcomes(sug, contents) ==
  IF sug.sectionDelimeterRegex.kind = "invalid" THEN {RegexThrows(sug)}
  ELSE LET sections == SplitSections(contents, sug.sectionDelimeterRegex)
           results == FuseSearch(sections, sug.header)
       IN IF results = {} THEN {NoMatch(sug)}
          ELSE {ApplyBest(sug, contents, best) : best \in results}

\* ------------------------------------------------------------------ state

VARIABLES
  vault,      \* app.vault.getMarkdownFiles(), with each file's text
  sessions,   \* LinkSuggest: one entry per getSuggestions call, in call order
  debouncer,  \* LinkSuggest.debouncer: the session that owns it, 0 if undefined
  calls,      \* the retrieval calls plugin.get_suggestions made by LinkSuggest
  clicks,     \* QueryModal: one entry per Submit click, in click order
  resultsDiv, \* QueryModal: what the results container shows
  res,        \* one candidate being resolved on its own
  settings,   \* plugin.settings, which the modal holds by reference
  nav,        \* QueryModal: what choosing a Suggestion did to the workspace
  trig,       \* one call of LinkSuggest.onTrigger
  loc         \* one call of getLocFromIndex

vars == <<vault, sessions, debouncer, calls, clicks, resultsDiv, res, settings, nav,
          trig, loc>>

\* The queries a trigger event or the modal's input can carry.
Queries == {<<>>, <<"a">>, <<"b">>}

CandHit == [name |-> "n1", header |-> <<"#", "a">>]
CandMiss == [name |-> "nX", header |-> <<"#", "a">>]

\* The answers of the retrieval collaborator.
CandidateLists == {<<>>, <<CandHit, CandMiss>>}

\* The results container: empty, showing the loader, or showing the rendered
\* Suggestions of a click.
DivEmpty == [show |-> "empty", click |-> 0]
DivLoader == [show |-> "loader", click |-> 0]
DivResults(c) == [show |-> "results", click |-> c]

\* No Suggestion was chosen: the modal is open.
NoNav == [kind |-> "none", file |-> 0, pos |-> <<>>]

\* The workspace's leaves by the file of their view, 0 for a view that has no
\* file (an empty tab, the file explorer): one such leaf and one showing the
\* second file of the vault.
Leaves == <<0, 2>>

\* suggestions.forEach(s => s.addSuggestionFile().addSuggestionHeading()) over
\* wasmSuggestions.map(w => new Suggestion(...)): every Suggestion is built,
\* gets its file, and its heading step runs up to the cachedRead.
StartBatch(files, cands, regex) ==
  [i \in 1..Len(cands) |->
     HeadingStart(addSuggestionFile(files, NewSuggestion(cands[i], regex)))]

NoRes == [stage |-> "none"]

\* onTrigger and getLocFromIndex were not called.
NoTrig == [stage |-> "none"]
NoLoc == [stage |-> "none"]

\* A rejected heading step that takes the rest of the batch with it.
FailDropsRest(batch, i) == SubSeq(batch, 1, i - 1)

\* cachedRead of Suggestion i rejects inside the callback of forEach: the
\* promise of that callback is rejected, the batch is what it was but for
\* Suggestion i.
FailInBatch(batch, i) == [batch EXCEPT ![i] = ReadFails(batch[i])]

\* ------------------------------------------------------------------ LinkSuggest

\* A cancel that leaves an armed timer armed.
CancelNoop(ss, d) == ss

\* Debouncer.cancel(): clears the timer if it is still armed; a debounced
\* function that already started is not affected.
Cancel(ss, d) ==
  IF d # 0 /\ ss[d].status = "pending"
  THEN [ss EXCEPT ![d].status = "cancelled"]
  ELSE ss

\* An emptiness test that never holds.
IsEmptyQueryNever(q) == FALSE

\* query === ""
IsEmptyQuery(q) == q = <<>>

\* getSuggestions(context): cancel the previous debouncer, make a new one and
\* call it, which arms its 500 ms timer; the returned promise is pending.
\* joins and superseded record the timing of this event for the earlier
\* sessions: joins, that it came while the previous timer was armed;
\* superseded, that it came while a session's retrieval was in flight.
Trigger(q) ==
  /\ Len(sessions) < MaxTriggers
  /\ LET cancelled == Cancel(sessions, debouncer)
         marked == [s \in DOMAIN cancelled |->
                      IF sessions[s].status = "retrieving"
                      THEN [cancelled[s] EXCEPT !.superseded = TRUE]
                      ELSE cancelled[s]]
     IN sessions' = Append(marked,
          [query |-> q, status |-> "pending", promise |-> "pending",
           batch |-> <<>>,
           joins |-> debouncer # 0 /\ sessions[debouncer].status = "pending",
           superseded |-> FALSE])
  /\ debouncer' = Len(sessions) + 1
  /\ UNCHANGED <<vault, calls, clicks, resultsDiv, res, settings, nav, trig, loc>>

\* The timer of session s elapses and the debounced function starts: it
\* returns at once for an empty query (the returned [] goes nowhere), else it
\* calls plugin.get_suggestions and awaits it.
TimerFire(s) ==
  /\ sessions[s].status = "pending"
  /\ IF IsEmptyQuery(sessions[s].query)
     THEN /\ sessions' = [sessions EXCEPT ![s].status = "returned"]
          /\ UNCHANGED calls
     ELSE /\ sessions' = [sessions EXCEPT ![s].status = "retrieving"]
          /\ calls' = Append(calls, [session |-> s, query |-> sessions[s].query])
  /\ UNCHANGED <<vault, debouncer, clicks, resultsDiv, res, settings, nav, trig, loc>>

\* plugin.get_suggestions of session s resolves with cands: the Suggestions are
\* built, each heading step is started, and cb(suggestions) resolves the
\* promise of session s. LinkSuggest passes no pattern to the Suggestion.
RetrievalComplete(s, cands) ==
  /\ sessions[s].status = "retrieving"
  /\ sessions' = [sessions EXCEPT
                    ![s].status = "delivered",
                    ![s].promise = "resolved",
                    ![s].batch = StartBatch(vault, cands, PatUndefined)]
  /\ UNCHANGED <<vault, debouncer, calls, clicks, resultsDiv, res, settings, nav, trig, loc>>

\* plugin.get_suggestions of session s rejects: the debounced function throws
\* at the await, cb is not called and nothing catches the rejection.
RetrievalFail(s) ==
  /\ sessions[s].status = "retrieving"
  /\ sessions' = [sessions EXCEPT ![s].status = "rejected"]
  /\ UNCHANGED <<vault, debouncer, calls, clicks, resultsDiv, res, settings, nav, trig, loc>>

\* cachedRead of Suggestion i of session s returns and addSuggestionHeading
\* runs to its end.
HeadingResume(s, i) ==
  /\ i \in DOMAIN sessions[s].batch
  /\ sessions[s].batch[i].stage = "reading"
  /\ \E out \in HeadingOutcomes(sessions[s].batch[i],
                                vault[sessions[s].batch[i].file].contents) :
       sessions' = [sessions EXCEPT ![s].batch[i] = out]
  /\ UNCHANGED <<vault, debouncer, calls, clicks, resultsDiv, res, settings, nav, trig, loc>>

\* cachedRead of Suggestion i of session s rejects.
HeadingReadFail(s, i) ==
  /\ i \in DOMAIN sessions[s].batch
  /\ sessions[s].batch[i].stage = "reading"
  /\ sessions' = [sessions EXCEPT ![s].batch = FailInBatch(sessions[s].batch, i)]
  /\ UNCHANGED <<vault, debouncer, calls, clicks, resultsDiv, res, settings, nav, trig, loc>>

\* settings.sectionDelimeterRegex when the plugin starts: the heading preset.
SettingsRegex == PatHeading

Init ==
  /\ vault = FixedVault
  /\ sessions = <<>>
  /\ debouncer = 0
  /\ calls = <<>>
  /\ clicks = <<>>
  /\ resultsDiv = DivEmpty
  /\ res = NoRes
  /\ settings = [sectionDelimeterRegex |-> SettingsRegex]
  /\ nav = NoNav
  /\ trig = NoTrig
  /\ loc = NoLoc

Next ==
  \/ \E q \in Queries : Trigger(q)
  \/ \E s \in DOMAIN sessions : TimerFire(s)
  \/ \E s \in DOMAIN sessions, cands \in CandidateLists : RetrievalComplete(s, cands)
  \/ \E s \in DOMAIN sessions : RetrievalFail(s)
  \/ \E s \in DOMAIN sessions, i \in 1..2 : HeadingResume(s, i)
  \/ \E s \in DOMAIN sessions, i \in 1..2 : HeadingReadFail(s, i)

Spec == Init /\ [][Next]_vars

\* ------------------------------------------------------------------ QueryModal

\* The strings the settings tab's text field can be given.
SettingValues == {PatDot, PatHeading, PatInvalid}

\* onChange of the Section Header Delimeter Regex field: the value is stored
\* as typed. The settings tab is used before the modal.
SetRegex(p) ==
  /\ clicks = <<>>
  /\ p # settings.sectionDelimeterRegex
  /\ settings' = [settings EXCEPT !.sectionDelimeterRegex = p]
  /\ UNCHANGED <<vault, sessions, debouncer, calls, clicks, resultsDiv, res, nav, trig, loc>>

\* button.onclick up to the await in getSuggestions: the results container
\* shows the loader and plugin.get_suggestions is called with the input's
\* value.
Click(q) ==
  /\ Len(clicks) < MaxClicks
  /\ nav.kind = "none"
  /\ clicks' = Append(clicks, [query |-> q, status |-> "retrieving",
                               wasm |-> <<>>, batch |-> <<>>])
  /\ resultsDiv' = DivLoader
  /\ UNCHANGED <<vault, sessions, debouncer, calls, res, settings, nav, trig, loc>>

\* QueryModal.getSuggestions after the await: the Suggestions are built, the
\* async callback of forEach starts each heading step without anything
\* awaiting it, and the Suggestions are returned.
ModalRetrievalComplete(c, cands) ==
  /\ clicks[c].status = "retrieving"
  /\ clicks' = [clicks EXCEPT
                  ![c].status = "returned",
                  ![c].wasm = <<cands>>,
                  ![c].batch = StartBatch(vault, cands, settings.sectionDelimeterRegex)]
  /\ UNCHANGED <<vault, sessions, debouncer, calls, resultsDiv, res, settings, nav, trig, loc>>

\* plugin.get_suggestions rejects: getSuggestions rejects, the click handler
\* throws at its await and the results container keeps the loader.
ModalRetrievalFail(c) ==
  /\ clicks[c].status = "retrieving"
  /\ clicks' = [clicks EXCEPT ![c].status = "rejected"]
  /\ UNCHANGED <<vault, sessions, debouncer, calls, resultsDiv, res, settings, nav, trig, loc>>

\* button.onclick after the await: the container is cleared and every
\* Suggestion of the batch is rendered.
ModalRender(c) ==
  /\ clicks[c].status = "returned"
  /\ clicks' = [clicks EXCEPT ![c].status = "rendered"]
  /\ resultsDiv' = DivResults(c)
  /\ UNCHANGED <<vault, sessions, debouncer, calls, res, settings, nav, trig, loc>>

\* cachedRead of Suggestion i of click c returns and addSuggestionHeading runs
\* to its end.
ModalHeadingResume(c, i) ==
  /\ i \in DOMAIN clicks[c].batch
  /\ clicks[c].batch[i].stage = "reading"
  /\ \E out \in HeadingOutcomes(clicks[c].batch[i],
                                vault[clicks[c].batch[i].file].contents) :
       clicks' = [clicks EXCEPT ![c].batch[i] = out]
  /\ UNCHANGED <<vault, sessions, debouncer, calls, resultsDiv, res, settings, nav, trig, loc>>

\* cachedRead of Suggestion i of click c rejects.
ModalHeadingReadFail(c, i) ==
  /\ i \in DOMAIN clicks[c].batch
  /\ clicks[c].batch[i].stage = "reading"
  /\ clicks' = [clicks EXCEPT ![c].batch = FailInBatch(clicks[c].batch, i)]
  /\ UNCHANGED <<vault, sessions, debouncer, calls, resultsDiv, res, settings, nav, trig, loc>>

\* leaves.find(isMatch): the first leaf whose view's file is the Suggestion's
\* file, undefined === undefined included; 0 when there is none.
FindLeaf(leaves, file) ==
  IF \E l \in 1..Len(leaves) : leaves[l] = file
  THEN CHOOSE l \in 1..Len(leaves) :
         /\ leaves[l] = file
         /\ \A m \in 1..(l - 1) : leaves[m] # file
  ELSE 0

\* The click on rendered Suggestion i of click c, onChooseSuggestion: the
\* modal closes; a matching leaf is made active, else the file, if there is
\* one, is opened in a new tab. nav keeps the file and pos the Suggestion had.
Choose(c, i) ==
  /\ nav.kind = "none"
  /\ resultsDiv = DivResults(c)
  /\ i \in DOMAIN clicks[c].batch
  /\ LET sug == clicks[c].batch[i]
         matchingLeaf == FindLeaf(Leaves, sug.file)
     IN nav' = [kind |-> IF matchingLeaf = 0
                         THEN (IF sug.file # 0 THEN "open" ELSE "closed")
                         ELSE "activate",
                file |-> sug.file, pos |-> sug.pos]
  /\ UNCHANGED <<vault, sessions, debouncer, calls, clicks, resultsDiv, res, settings, trig, loc>>

NextModal ==
  \/ \E p \in SettingValues : SetRegex(p)
  \/ \E q \in Queries : Click(q)
  \/ \E c \in DOMAIN clicks, cands \in CandidateLists : ModalRetrievalComplete(c, cands)
  \/ \E c \in DOMAIN clicks : ModalRetrievalFail(c)
  \/ \E c \in DOMAIN clicks : ModalRender(c)
  \/ \E c \in DOMAIN clicks, i \in 1..2 : ModalHeadingResume(c, i)
  \/ \E c \in DOMAIN clicks, i \in 1..2 : ModalHeadingReadFail(c, i)
  \/ \E c \in DOMAIN clicks, i \in 1..2 : Choose(c, i)

SpecModal == Init /\ [][NextModal]_vars

\* ------------------------------------------------------------------ one batch

CandOther == [name |-> "n2", header |-> <<"#", "a">>]

\* The answers of the retrieval collaborator to one call of getSuggestions.
BatchCandidateLists == CandidateLists \cup {<<CandOther, CandHit, CandMiss>>}

\* One click on the modal's button, with any stored pattern: get_suggestions
\* has been called and has not answered.
InitBatch ==
  /\ vault = FixedVault
  /\ sessions = <<>>
  /\ debouncer = 0
  /\ calls = <<>>
  /\ \E q \in Queries :
       clicks = <<[query |-> q, status |-> "retrieving", wasm |-> <<>>, batch |-> <<>>]>>
  /\ resultsDiv = DivLoader
  /\ res = NoRes
  /\ \E p \in SettingValues : settings = [sectionDelimeterRegex |-> p]
  /\ nav = NoNav
  /\ trig = NoTrig
  /\ loc = NoLoc

NextBatch ==
  \/ \E cands \in BatchCandidateLists : ModalRetrievalComplete(1, cands)
  \/ ModalRender(1)
  \/ \E i \in 1..3 : ModalHeadingResume(1, i)
  \/ \E i \in 1..3 : ModalHeadingReadFail(1, i)

SpecBatch == InitBatch /\ [][NextBatch]_vars

\* ------------------------------------------------------------------ one candidate

\* The headers a candidate can carry.
Headers == {<<"#", "a">>, <<"a", "a">>, ScenarioHeader}

ResolveCandidates == {[name |-> n, header |-> h] : n \in {"n1", "nX"}, h \in Headers}

\* A vault of one file "n1" with any text, a candidate and a pattern; the
\* Suggestion is constructed. sections, best and reported keep the local
\* variables of addSuggestionHeading: the pushed sections, the index Fuse
\* chose and the index ranges of bestMatch.matches.
InitResolve ==
  /\ vault \in {<<[name |-> "n1", contents |-> t]>> : t \in Texts \cup {ScenarioDoc}}
  /\ \E cand \in ResolveCandidates, pat \in Patterns :
       res = [stage |-> "new", sug |-> NewSuggestion(cand, pat),
              sections |-> <<>>, best |-> 0, reported |-> <<>>]
  /\ sessions = <<>>
  /\ debouncer = 0
  /\ calls = <<>>
  /\ clicks = <<>>
  /\ resultsDiv = DivEmpty
  /\ settings = [sectionDelimeterRegex |-> SettingsRegex]
  /\ nav = NoNav
  /\ trig = NoTrig
  /\ loc = NoLoc

ResolveFile ==
  /\ res.stage = "new"
  /\ res' = [res EXCEPT !.sug = addSuggestionFile(vault, res.sug), !.stage = "file"]
  /\ UNCHANGED <<vault, sessions, debouncer, calls, clicks, resultsDiv, settings, nav, trig, loc>>

ResolveHeadingStart ==
  /\ res.stage = "file"
  /\ res' = [res EXCEPT !.sug = HeadingStart(res.sug), !.stage = HeadingStart(res.sug).stage]
  /\ UNCHANGED <<vault, sessions, debouncer, calls, clicks, resultsDiv, settings, nav, trig, loc>>

ResolveHeadingResume ==
  /\ res.stage = "reading"
  /\ LET contents == vault[res.sug.file].contents
         sections == SplitSections(contents, res.sug.sectionDelimeterRegex)
         results == FuseSearch(sections, res.sug.header)
     IN IF results = {}
        THEN res' = [res EXCEPT !.sug = NoMatch(res.sug),
                                !.stage = NoMatch(res.sug).stage,
                                !.sections = sections]
        ELSE \E best \in results :
               res' = [stage |-> "done", sug |-> ApplyBest(res.sug, contents, best),
                       sections |-> sections, best |-> best.refIndex,
                       reported |-> AllIndices(best.matches)]
  /\ UNCHANGED <<vault, sessions, debouncer, calls, clicks, resultsDiv, settings, nav, trig, loc>>

\* vault.cachedRead rejects.
ResolveReadFail ==
  /\ res.stage = "reading"
  /\ res' = [res EXCEPT !.sug = ReadFails(res.sug), !.stage = ReadFails(res.sug).stage]
  /\ UNCHANGED <<vault, sessions, debouncer, calls, clicks, resultsDiv, settings, nav, trig, loc>>

NextResolve ==
  \/ ResolveFile
  \/ ResolveHeadingStart
  \/ ResolveHeadingResume
  \/ ResolveReadFail

SpecResolve == InitResolve /\ [][NextResolve]_vars

\* ------------------------------------------------------------------ pipeline claims

CallsOf(s) == {k \in DOMAIN calls : calls[k].session = s}

Started(s) == sessions[s].status \in {"retrieving", "delivered", "rejected"}

\* C1: a session whose retrieval was in flight when a new trigger event
\* arrived never has its delivery callback invoked.
C1_SupersededNeverDelivered ==
  \A s \in DOMAIN sessions :
    sessions[s].superseded => sessions[s].status # "delivered"

\* C2: no step delivers the result set of a session while a newer session has
\* already issued its retrieval call.
C2_NoStaleDelivery ==
  [][\A s \in DOMAIN sessions :
       (sessions[s].status # "delivered" /\ sessions'[s].status = "delivered")
         => \A t \in DOMAIN sessions : t > s => ~Started(t)]_vars

\* Sessions i..j are a burst: each of i+1..j arrived while the timer of the
\* one before was armed, and i and the session after j (if any) did not.
IsBurst(i, j) ==
  /\ i <= j
  /\ ~sessions[i].joins
  /\ \A k \in (i + 1)..j : sessions[k].joins
  /\ (j < Len(sessions) => ~sessions[j + 1].joins)

\* C3: in a burst of trigger events with non-empty queries, each arriving in
\* the delay window of the one before, every event but the last issues no
\* retrieval call and is only replaced; the last issues no call while its
\* timer is armed and, once it elapsed, exactly one call, with its own query.
C3_BurstOneRetrieval ==
  \A i \in DOMAIN sessions, j \in DOMAIN sessions :
    (IsBurst(i, j) /\ \A k \in i..j : sessions[k].query # <<>>)
      => /\ \A k \in i..(j - 1) :
              sessions[k].status = "cancelled" /\ CallsOf(k) = {}
         /\ sessions[j].status = "pending" => CallsOf(j) = {}
         /\ sessions[j].status # "pending"
              => /\ Cardinality(CallsOf(j)) = 1
                 /\ \A k \in CallsOf(j) : calls[k].query = sessions[j].query

\* A burst of three events with changing queries whose one call was issued.
C3_Witness ==
  /\ Len(sessions) = 3
  /\ IsBurst(1, 3)
  /\ sessions[1].query # <<>>
  /\ sessions[2].query # <<>>
  /\ sessions[3].query # <<>>
  /\ sessions[2].query # sessions[3].query
  /\ Started(3)
  /\ Len(calls) = 1

\* C4 as stated: at most one retrieval call is in flight.
C4_AtMostOneInFlight ==
  Cardinality({s \in DOMAIN sessions : sessions[s].status = "retrieving"}) <= 1

\* C4, amended: at most one delay timer is armed, the session that owns it is
\* the newest, and every session issues at most one retrieval call (exactly
\* one once its timer elapsed on a non-empty query, none before).
C4_OneTimerOneCallPerSession ==
  /\ Cardinality({s \in DOMAIN sessions : sessions[s].status = "pending"}) <= 1
  /\ \A s \in DOMAIN sessions :
       /\ sessions[s].status = "pending" => s = Len(sessions) /\ s = debouncer
       /\ Cardinality(CallsOf(s)) <= 1
       /\ Started(s) <=> CallsOf(s) # {}

\* Two retrieval calls in flight while the timer of a third session is armed.
C4_Witness ==
  /\ Len(sessions) = 3
  /\ sessions[1].status = "retrieving"
  /\ sessions[2].status = "retrieving"
  /\ sessions[3].status = "pending"

\* C6: the promise of a trigger event with an empty query is resolved with an
\* empty sequence at once, without waiting for the delay window.
C6_EmptyQueryResolvedAtOnce ==
  \A s \in DOMAIN sessions :
    sessions[s].query = <<>>
      => sessions[s].promise = "resolved" /\ sessions[s].batch = <<>>

\* C7: no retrieval call carries an empty query, and a session whose query is
\* empty never starts a retrieval.
C7_EmptyQueryNoRetrieval ==
  /\ \A k \in DOMAIN calls : calls[k].query # <<>>
  /\ \A s \in DOMAIN sessions :
       sessions[s].query = <<>> => ~Started(s) /\ CallsOf(s) = {}

\* The timer of an empty-query session elapsed while another session's
\* retrieval was in flight.
C7_Witness ==
  \E s \in DOMAIN sessions, t \in DOMAIN sessions :
    /\ sessions[s].query = <<>>
    /\ sessions[s].status = "returned"
    /\ sessions[t].status = "retrieving"

\* C8: the subscriber of a session whose retrieval call failed has received an
\* empty result set.
C8_FailureDeliversEmpty ==
  \A s \in DOMAIN sessions :
    sessions[s].status = "rejected"
      => sessions[s].promise = "resolved" /\ sessions[s].batch = <<>>

\* ------------------------------------------------------------------ hand-over claim

\* C5: every Suggestion of a batch that QueryModal.getSuggestions has returned
\* has finished its resolution steps.
C5_ReturnedBatchIsResolved ==
  \A c \in DOMAIN clicks :
    clicks[c].status \in {"returned", "rendered"}
      => \A i \in DOMAIN clicks[c].batch : clicks[c].batch[i].stage = "done"

\* ------------------------------------------------------------------ resolution claims

\* The line numbers at which the loop of the splitter starts an accumulator:
\* line 1, then every line that closes a section.
RECURSIVE OpeningLines(_, _, _, _, _)
OpeningLines(lines, pat, k, cur_idx, opens) ==
  IF k > Len(lines) THEN opens
  ELSE OpeningLines(lines, pat, k + 1, cur_idx + Len(lines[k]),
                    IF LineMatches(lines[k], pat) /\ cur_idx # 0
                    THEN Append(opens, k) ELSE opens)

ResContents == vault[1].contents

\* C9: the start position reported for the selected section has the line of
\* the document line that opened the section; in the scenario a position is
\* reported and its line is 4, the line of "## Setup".
C9_StartLineIsOpeningLine ==
  /\ (res.stage = "done" /\ res.best # 0)
       => res.sug.pos[1].start.line =
            OpeningLines(SplitNL(ResContents, <<>>), res.sug.sectionDelimeterRegex,
                         1, 0, <<1>>)[res.best]
  /\ (/\ res.stage = "done"
      /\ res.sug.file # 0
      /\ ResContents = ScenarioDoc
      /\ res.sug.sectionDelimeterRegex = PatH2
      /\ res.sug.header = ScenarioHeader)
       => IF res.sug.pos = <<>> THEN FALSE ELSE res.sug.pos[1].start.line = 4

\* C10: the sections split from a non-empty document start at offset 0 and
\* end at the length of the document's text.
C10_SectionsCoverDocument ==
  (res.stage = "done" /\ res.sug.file # 0 /\ Len(ResContents) > 0)
    => IF res.sections = <<>> THEN FALSE
       ELSE /\ res.sections[1].start = 0
            /\ res.sections[Len(res.sections)].end = Len(ResContents)

\* ------------------------------------------------------------------ splitter claims

ResLines == SplitNL(ResContents, <<>>)

ResPattern == res.sug.sectionDelimeterRegex

\* The Suggestion's document was read and split.
ResSplitDone == res.stage = "done" /\ res.sug.file # 0

RECURSIVE ConcatTexts(_)
ConcatTexts(sections) ==
  IF sections = <<>> THEN <<>>
  ELSE Head(sections).text \o ConcatTexts(Tail(sections))

IsNotNL(c) == c # NL

\* C11: with a pattern that matches every line of the document, the section
\* texts concatenated in order are the document's text without its newlines.
C11_ConcatReconstructs ==
  (ResSplitDone /\ \A k \in 1..Len(ResLines) : LineMatches(ResLines[k], ResPattern))
    => ConcatTexts(res.sections) = SelectSeq(ResContents, IsNotNL)

\* C12: with a pattern that matches no line after the first, a document that
\* is not empty has exactly one section and it spans the whole document.
C12_OneSectionSpansDocument ==
  (/\ ResSplitDone
   /\ ResContents # <<>>
   /\ \A k \in 2..Len(ResLines) : ~LineMatches(ResLines[k], ResPattern))
    => /\ Len(res.sections) = 1
       /\ res.sections[1].start = 0
       /\ res.sections[1].end = Len(ResContents)

\* C13: the sections are in document order and contiguous: the first starts at
\* offset 0, every later one starts where the one before ends, and none ends
\* before it starts.
C13_SectionsContiguous ==
  ResSplitDone
    => /\ res.sections # <<>> => res.sections[1].start = 0
       /\ \A k \in 2..Len(res.sections) :
            res.sections[k].start = res.sections[k - 1].end
       /\ \A k \in 1..Len(res.sections) :
            res.sections[k].start <= res.sections[k].end

\* Two sections were split, neither empty.
C13_Witness ==
  /\ ResSplitDone
  /\ Len(res.sections) = 2
  /\ res.sections[1].start < res.sections[1].end
  /\ res.sections[2].start < res.sections[2].end

\* C14: no section but possibly the first has empty text.
C14_NoEmptySection ==
  ResSplitDone => \A k \in 2..Len(res.sections) : res.sections[k].text # <<>>

\* ------------------------------------------------------------------ matcher claims

\* C15: the highlight ranges stored in the Suggestion's match are all the
\* index ranges Fuse reported for the best section, so they are not empty
\* when Fuse reported a range.
C15_HighlightsAreReportedRanges ==
  (res.stage = "done" /\ res.best # 0 /\ res.sug.match # <<>>)
    => /\ res.sug.match[1].matches = res.reported
       /\ res.reported # <<>> => res.sug.match[1].matches # <<>>

\* No section shares a run of minMatchCharLength characters with the header.
ResNoSectionMatches ==
  \A k \in 1..Len(res.sections) :
    CommonRuns(res.sections[k].text, res.sug.header) = {}

\* C16: when no section matches the header (or there is no section), the
\* heading step ends without an error and the Suggestion has neither a
\* position nor a match.
C16_NoMatchUnresolved ==
  (res.stage \in {"done", "threw"} /\ res.sug.file # 0 /\ ResNoSectionMatches)
    => /\ res.stage = "done"
       /\ res.sug.stage = "done"
       /\ res.sug.pos = <<>>
       /\ res.sug.match = <<>>

\* The document had sections, none matched, and the step ended.
C16_Witness ==
  /\ res.stage = "done"
  /\ res.sug.file # 0
  /\ Len(res.sections) >= 2
  /\ ResNoSectionMatches
  /\ res.sug.pos = <<>>

\* C17: a candidate whose name is the name of no document gets no document,
\* no position and no match, its heading step ends without an error, and no
\* document is read or split for it.
C17_LookupMissUnresolved ==
  (res.stage # "new" /\ \A i \in 1..Len(vault) : vault[i].name # res.sug.name)
    => /\ res.stage \in {"file", "done"}
       /\ res.sug.file = 0
       /\ res.sug.pos = <<>>
       /\ res.sug.match = <<>>
       /\ res.sections = <<>>
       /\ res.best = 0

\* The heading step of a candidate with an unknown name ended, in a vault
\* whose document would have matched its header.
C17_Witness ==
  /\ res.stage = "done"
  /\ res.sug.name = "nX"
  /\ FuseSearch(SplitSections(ResContents, ResPattern), res.sug.header) # {}

\* ------------------------------------------------------------------ batch claims

\* The heading step of a Suggestion failed: its read or its pattern.
Failed(sug) == sug.stage \in {"unread", "threw"}

\* C18: once the retrieval has answered, whatever fails in the heading step of
\* one candidate, the batch is returned (and then rendered) with one
\* Suggestion per candidate, in the candidates' order, and the heading step of
\* every other candidate still runs to its end.
C18_FailureKeepsBatch ==
  \A c \in DOMAIN clicks :
    clicks[c].wasm # <<>> =>
      /\ clicks[c].status \in {"returned", "rendered"}
      /\ clicks[c].status = "returned" => ENABLED ModalRender(c)
      /\ Len(clicks[c].batch) = Len(clicks[c].wasm[1])
      /\ \A i \in DOMAIN clicks[c].batch :
           /\ clicks[c].batch[i].name = clicks[c].wasm[1][i].name
           /\ clicks[c].batch[i].header = clicks[c].wasm[1][i].header
           /\ clicks[c].batch[i].stage \in {"reading", "done", "unread", "threw"}
           /\ clicks[c].batch[i].stage = "reading" => ENABLED ModalHeadingResume(c, i)

\* The read of the first candidate failed, the second candidate got its
\* position, and the batch of three was rendered.
C18_Witness ==
  /\ clicks[1].status = "rendered"
  /\ Len(clicks[1].batch) = 3
  /\ clicks[1].batch[1].stage = "unread"
  /\ clicks[1].batch[2].stage = "done"
  /\ clicks[1].batch[2].pos # <<>>

\* C19: no heading step fails on the pattern: an invalid pattern is refused
\* when it is set, so new RegExp never throws in a resolution.
C19_NoPatternErrorAtMatchTime ==
  \A c \in DOMAIN clicks :
    \A i \in DOMAIN clicks[c].batch :
      clicks[c].batch[i].stage # "threw"

\* ------------------------------------------------------------------ choice claims

\* C20: choosing a Suggestion that has no file or no position neither makes a
\* leaf active nor opens a file.
C20_UnresolvedNeverNavigated ==
  nav.kind \in {"open", "activate"} => (nav.file # 0 /\ nav.pos # <<>>)

\* ------------------------------------------------------------------ trigger scanner

MaxLine == 5

LineAlphabet == {"{", "}", "a"}

\* The lines of the editor, up to MaxLine characters.
Lines == UNION {[1..n -> LineAlphabet] : n \in 0..MaxLine}

\* The two characters at 0-based column i of line are both c.
PairAt(line, i, c) ==
  /\ i >= 0
  /\ i + 2 <= Len(line)
  /\ line[i + 1] = c
  /\ line[i + 2] = c

\* /\{\{.*\}\}/ matches at column i: an opening pair there and a closing pair
\* anywhere after it.
RxMatchesAt(line, i) ==
  /\ PairAt(line, i, "{")
  /\ \E j \in (i + 2)..(Len(line) - 2) : PairAt(line, j, "}")

\* line.search(rx): the column of the leftmost match, -1 without one.
Search(line) ==
  IF \E i \in 0..(Len(line) - 1) : RxMatchesAt(line, i)
  THEN CHOOSE i \in 0..(Len(line) - 1) :
         /\ RxMatchesAt(line, i)
         /\ \A k \in 0..(i - 1) : ~RxMatchesAt(line, k)
  ELSE -1

\* The greedy .* runs to the last closing pair of the line: its column.
LastClose(line) ==
  CHOOSE j \in 0..(Len(line) - 2) :
    /\ PairAt(line, j, "}")
    /\ \A k \in (j + 1)..(Len(line) - 2) : ~PairAt(line, k, "}")

Max(a, b) == IF a > b THEN a ELSE b

\* String.prototype.substring: both ends are clamped to the string and
\* swapped when the first is the greater.
Substring(str, a, b) ==
  LET ca == Min(Max(a, 0), Len(str))
      cb == Min(Max(b, 0), Len(str))
  IN SubSeq(str, Min(ca, cb) + 1, Max(ca, cb))

\* A scanner that takes the query from the opening pair on.
onTriggerQueryFromBracket(line, ch) ==
  LET matchedIdx == Search(line)
  IN IF matchedIdx = -1 THEN <<>>
     ELSE IF ch <= matchedIdx + 1 THEN <<>>
     ELSE <<[start |-> matchedIdx, end |-> ch + 2,
             query |-> Substring(line, matchedIdx, ch)]>>

\* onTrigger for the cursor's line and column: <<>> for null, else the
\* columns of start and end and the query.
onTrigger(line, ch) ==
  LET matchedIdx == Search(line)
  IN IF matchedIdx = -1 THEN <<>>
     ELSE IF ch <= matchedIdx + 1 THEN <<>>
     ELSE <<[start |-> matchedIdx, end |-> ch + 2,
             query |-> Substring(line, matchedIdx + 2, ch)]>>

\* The editor calls onTrigger with a cursor on a line.
InitTrigger ==
  /\ vault = FixedVault
  /\ sessions = <<>>
  /\ debouncer = 0
  /\ calls = <<>>
  /\ clicks = <<>>
  /\ resultsDiv = DivEmpty
  /\ res = NoRes
  /\ settings = [sectionDelimeterRegex |-> SettingsRegex]
  /\ nav = NoNav
  /\ \E line \in Lines, ch \in 0..MaxLine :
       /\ ch <= Len(line)
       /\ trig = [stage |-> "called", line |-> line, ch |-> ch, result |-> <<>>]
  /\ loc = NoLoc

TriggerReturn ==
  /\ trig.stage = "called"
  /\ trig' = [trig EXCEPT !.stage = "done", !.result = onTrigger(trig.line, trig.ch)]
  /\ UNCHANGED <<vault, sessions, debouncer, calls, clicks, resultsDiv, res, settings,
                 nav, loc>>

NextTrigger == TriggerReturn

SpecTrigger == InitTrigger /\ [][NextTrigger]_vars

\* ------------------------------------------------------------------ one mapper call

\* getLocFromIndex is called with a text and an offset, up to one past the
\* longest text.
InitLoc ==
  /\ vault = FixedVault
  /\ sessions = <<>>
  /\ debouncer = 0
  /\ calls = <<>>
  /\ clicks = <<>>
  /\ resultsDiv = DivEmpty
  /\ res = NoRes
  /\ settings = [sectionDelimeterRegex |-> SettingsRegex]
  /\ nav = NoNav
  /\ trig = NoTrig
  /\ \E content \in Texts, index \in 0..(MaxLen + 1) :
       loc = [stage |-> "called", content |-> content, index |-> index, result |-> <<>>]

\* The call returns: the function has no throw.
LocReturn ==
  /\ loc.stage = "called"
  /\ loc' = [loc EXCEPT !.stage = "done",
                        !.result = <<getLocFromIndex(loc.content, loc.index)>>]
  /\ UNCHANGED <<vault, sessions, debouncer, calls, clicks, resultsDiv, res, settings,
                 nav, trig>>

NextLoc == LocReturn

SpecLoc == InitLoc /\ [][NextLoc]_vars

\* ------------------------------------------------------------------ scanner claims

\* C21: the scanner returns null for a line without the pattern, for a
\* cursor at or before the second character of the opening pair, and for a
\* cursor after the closing pair.
C21_NoneOutsideBrackets ==
  (/\ trig.stage = "done"
   /\ \/ Search(trig.line) = -1
      \/ trig.ch <= Search(trig.line) + 1
      \/ trig.ch >= LastClose(trig.line) + 2)
    => trig.result = <<>>

\* C22: a returned span starts at the column of the opening pair, ends at
\* the cursor's column plus 2, and its query is the line from after the
\* opening pair up to the cursor.
C22_SpanOfTrigger ==
  (trig.stage = "done" /\ trig.result # <<>>)
    => /\ trig.result[1].start = Search(trig.line)
       /\ PairAt(trig.line, trig.result[1].start, "{")
       /\ trig.result[1].end = trig.ch + 2
       /\ trig.result[1].query = SubSeq(trig.line, trig.result[1].start + 3, trig.ch)
       /\ Len(trig.result[1].query) = trig.ch - (trig.result[1].start + 2)

\* A span was returned for a cursor between the pairs, with the query "a".
C22_Witness ==
  /\ trig.stage = "done"
  /\ trig.result # <<>>
  /\ trig.ch <= LastClose(trig.line)
  /\ trig.result[1].query = <<"a">>

\* ------------------------------------------------------------------ mapper claims

\* C23: for an offset within the text the mapper returns line 1 + the number
\* of newlines before the offset, column 0 and the offset itself; offset 0 is
\* line 1, and no smaller offset has a greater line.
C23_LineCountsNewlines ==
  (loc.stage = "done" /\ loc.index <= Len(loc.content))
    => /\ loc.result # <<>>
       /\ loc.result[1].line = 1 + CountNL(SubSeq(loc.content, 1, loc.index))
       /\ loc.result[1].col = 0
       /\ loc.result[1].offset = loc.index
       /\ loc.index = 0 => loc.result[1] = [line |-> 1, col |-> 0, offset |-> 0]
       /\ \A j \in 0..loc.index :
            getLocFromIndex(loc.content, j).line <= loc.result[1].line

\* An offset inside a text of three lines mapped to line 3, with a newline
\* after it.
C23_Witness ==
  /\ loc.stage = "done"
  /\ loc.index < Len(loc.content)
  /\ loc.result[1].line = 3
  /\ CountNL(loc.content) > 2

\* C24: for an offset greater than the length of the text the mapper returns
\* no Position.
C24_OffsetBeyondTextRejected ==
  (loc.stage = "done" /\ loc.index > Len(loc.content)) => loc.result = <<>>

\* ------------------------------------------------------------------ offset claims

\* C25: every section the splitter pushed lies within the document,
\* 0 <= start <= end <= length of the raw text, and is as long as its text;
\* so both offsets given to the mapper lie within the document and the
\* reported start line is not greater than the reported end line.
C25_OffsetsWithinDocument ==
  ResSplitDone
    => /\ \A k \in 1..Len(res.sections) :
            /\ 0 <= res.sections[k].start
            /\ res.sections[k].start <= res.sections[k].end
            /\ res.sections[k].end <= Len(ResContents)
            /\ res.sections[k].end - res.sections[k].start = Len(res.sections[k].text)
       /\ res.sug.pos # <<>> =>
            /\ res.sug.pos[1].start.offset \in 0..Len(ResContents)
            /\ res.sug.pos[1].end.offset \in 0..Len(ResContents)
            /\ res.sug.pos[1].start.offset <= res.sug.pos[1].end.offset
            /\ res.sug.pos[1].start.line <= res.sug.pos[1].end.line

\* The second of two pushed sections was chosen and mapped, its end on a
\* later line than its start.
C25_Witness ==
  /\ ResSplitDone
  /\ Len(res.sections) = 2
  /\ res.best = 2
  /\ res.sug.pos # <<>>
  /\ res.sug.pos[1].start.offset > 0
  /\ res.sug.pos[1].start.line < res.sug.pos[1].end.line

Quiescent ==
  \A s \in DOMAIN sessions :
    /\ sessions[s].status \notin {"pending", "retrieving"}
    /\ \A i \in DOMAIN sessions[s].batch : sessions[s].batch[i].stage # "reading"

\* C27: when every retrieval call has returned its candidates and nothing is
\* still to come, every promise getSuggestions returned for a query that is
\* not empty is settled, those of the events superseded within the delay
\* window included.
C27_EveryPromiseSettled ==
  (Quiescent /\ \A s \in DOMAIN sessions : sessions[s].status # "rejected")
    => \A s \in DOMAIN sessions :
         sessions[s].query # <<>> => sessions[s].promise # "pending"

\* C28: once the retrievals of all the clicks have returned and their
\* handlers have rendered, the results container shows Suggestions of the
\* query of the last click.
C28_LastClickShown ==
  (clicks # <<>> /\ \A c \in DOMAIN clicks : clicks[c].status = "rendered")
    => /\ resultsDiv.show = "results"
       /\ clicks[resultsDiv.click].query = clicks[Len(clicks)].query

====
